---- MODULE Spec2Model ----
(***************************************************************************)
(* Model of the curve engine of src/src/App.tsx: buildSeries,              *)
(* interpolateCurrentForLift, buildFlightCurve and splitCurve.             *)
(*                                                                         *)
(* Numbers.  A JavaScript number is modelled as a record [n, d]:           *)
(*   d > 0          the exact rational n/d in lowest terms;                *)
(*   d = 0          NaN (n = 0), +Infinity (n = 1), -Infinity (n = -1);    *)
(*   d = -1, n = 0  the value undefined (a missing throttle);              *)
(*   d = -1, n # 0  a finite non-zero number of sign n whose magnitude the *)
(*                  model does not track (an irrational power or root);    *)
(*   d = -2         a finite exponent the model does not track.            *)
(* Arithmetic on rationals is exact: the rounding of IEEE doubles is not   *)
(* modelled, the special values NaN and +-Infinity are.                    *)
(*                                                                         *)
(* Units.  Thrust, lift and weight are counted in units of 1e-9 kg, so the *)
(* source's literals 1e-9, 1e-6 and 0.01 (kg) are 1, 1000 and 10^7 units,  *)
(* and 1 kg is 10^9 units.  Current is in A, capacity in Ah, time in min.  *)
(***************************************************************************)
EXTENDS Integers, Sequences, FiniteSets

VARIABLES rows, series, liftKgPerMotor, res, motorCount, capacityAh, usablePct,
          points, curve, swept, split, pc

vars == <<rows, series, liftKgPerMotor, res, motorCount, capacityAh, usablePct,
          points, curve, swept, split, pc>>

---------------------------------------------------------------------------
(* Numbers *)

Abs(i) == IF i < 0 THEN -i ELSE i

RECURSIVE Gcd(_, _)
Gcd(a, b) == IF b = 0 THEN Abs(a) ELSE Gcd(b, a % b)

\* the rational n/d, d # 0, in lowest terms with a positive denominator
Rat(n, d) ==
  LET g == Gcd(Abs(n), Abs(d))
      s == IF d < 0 THEN -1 ELSE 1
  IN  [n |-> s * (n \div g), d |-> s * (d \div g)]

Num(i) == [n |-> i, d |-> 1]
Zero == Num(0)
One == Num(1)
NaN == [n |-> 0, d |-> 0]
PInf == [n |-> 1, d |-> 0]
NInf == [n |-> -1, d |-> 0]
Undefined == [n |-> 0, d |-> -1]
PosInexact == [n |-> 1, d |-> -1]
NegInexact == [n |-> -1, d |-> -1]
OtherExp == [n |-> 0, d |-> -2]

IsFin(v) == v.d > 0
\* NaN, or undefined used as a number
IsNaN(v) == v = NaN \/ v = Undefined
IsInf(v) == v.d = 0 /\ v.n # 0
IsInexact(v) == v.d = -1 /\ v.n # 0
\* Number.isFinite
IsFinite(v) == IsFin(v) \/ IsInexact(v)

Sgn(i) == IF i > 0 THEN 1 ELSE IF i < 0 THEN -1 ELSE 0
Sign(v) == Sgn(v.n)
Signed(s, pos, neg) == IF s > 0 THEN pos ELSE neg

\* an operation the model has no exact answer for: evaluating it stops TLC
Untracked == CHOOSE x \in {} : TRUE

Neg(a) == [n |-> -a.n, d |-> a.d]

Add(a, b) ==
  IF IsNaN(a) \/ IsNaN(b) THEN NaN
  ELSE IF IsInf(a) /\ IsInf(b) THEN (IF a = b THEN a ELSE NaN)
  ELSE IF IsInf(a) THEN a
  ELSE IF IsInf(b) THEN b
  ELSE IF IsFin(a) /\ IsFin(b)
       THEN LET g == Gcd(a.d, b.d)
            IN  Rat(a.n * (b.d \div g) + b.n * (a.d \div g), (a.d \div g) * b.d)
  ELSE IF IsFin(a) /\ a.n = 0 THEN b
  ELSE IF IsFin(b) /\ b.n = 0 THEN a
  ELSE IF Sign(a) = Sign(b) THEN Signed(Sign(a), PosInexact, NegInexact)
  ELSE Untracked

Sub(a, b) == Add(a, Neg(b))

Mul(a, b) ==
  IF IsNaN(a) \/ IsNaN(b) THEN NaN
  ELSE IF IsInf(a) \/ IsInf(b)
       THEN (IF Sign(a) = 0 \/ Sign(b) = 0 THEN NaN
             ELSE Signed(Sign(a) * Sign(b), PInf, NInf))
  ELSE IF Sign(a) = 0 \/ Sign(b) = 0 THEN Zero
  ELSE IF IsInexact(a) \/ IsInexact(b)
       THEN Signed(Sign(a) * Sign(b), PosInexact, NegInexact)
  ELSE LET g1 == Gcd(Abs(a.n), b.d)
           g2 == Gcd(Abs(b.n), a.d)
       IN  [n |-> (a.n \div g1) * (b.n \div g2), d |-> (a.d \div g2) * (b.d \div g1)]

\* IEEE division: x/0 is +-Infinity, 0/0 and Infinity/Infinity are NaN
Div(a, b) ==
  IF IsNaN(a) \/ IsNaN(b) THEN NaN
  ELSE IF IsInf(b) THEN (IF IsInf(a) THEN NaN ELSE Zero)
  ELSE IF Sign(b) = 0
       THEN (IF Sign(a) = 0 THEN NaN ELSE Signed(Sign(a), PInf, NInf))
  ELSE IF IsInf(a) THEN Signed(Sign(a) * Sign(b), PInf, NInf)
  ELSE IF Sign(a) = 0 THEN Zero
  ELSE IF IsInexact(a) \/ IsInexact(b)
       THEN Signed(Sign(a) * Sign(b), PosInexact, NegInexact)
  ELSE Mul(a, Rat(b.d, b.n))

\* a/b < c/d for b, d > 0, by the continued fractions of the two (no product
\* is formed, so none can leave the 32-bit integers)
RECURSIVE FracLt(_, _, _, _)
FracLt(a, b, c, d) ==
  IF a \div b # c \div d THEN a \div b < c \div d
  ELSE IF c % d = 0 THEN FALSE
  ELSE IF a % b = 0 THEN TRUE
  ELSE FracLt(d, c % d, b, a % b)

\* a < b; every comparison with NaN is false
Lt(a, b) ==
  IF IsNaN(a) \/ IsNaN(b) THEN FALSE
  ELSE IF a = b THEN (IF IsInexact(a) THEN Untracked ELSE FALSE)
  ELSE IF IsInf(a) THEN a = NInf
  ELSE IF IsInf(b) THEN b = PInf
  ELSE IF IsFin(a) /\ IsFin(b) THEN FracLt(a.n, a.d, b.n, b.d)
  ELSE IF Sign(a) # Sign(b) THEN Sign(a) < Sign(b)
  ELSE Untracked

Gt(a, b) == Lt(b, a)
Le(a, b) == ~IsNaN(a) /\ ~IsNaN(b) /\ (a = b \/ Lt(a, b))
Ge(a, b) == Le(b, a)

\* Math.max and Math.min of two numbers: NaN if either is NaN
MathMax(a, b) == IF IsNaN(a) \/ IsNaN(b) THEN NaN ELSE IF Lt(a, b) THEN b ELSE a
MathMin(a, b) == IF IsNaN(a) \/ IsNaN(b) THEN NaN ELSE IF Lt(b, a) THEN b ELSE a
MathAbs(a) == IF Sign(a) < 0 THEN Neg(a) ELSE a

\* v ?? w  and  v || w  on numbers
Nullish(v, w) == IF v = Undefined THEN w ELSE v
OrElse(v, w) == IF v = Undefined \/ IsNaN(v) \/ (IsFin(v) /\ v.n = 0) THEN w ELSE v

\* the largest r in lo..hi with r*r <= i  (lo*lo <= i)
RECURSIVE ISqrt(_, _, _)
ISqrt(i, lo, hi) ==
  IF lo >= hi THEN lo
  ELSE LET mid == (lo + hi + 1) \div 2
       IN  IF mid * mid <= i THEN ISqrt(i, mid, hi) ELSE ISqrt(i, lo, mid - 1)

\* 46340 is the largest root whose square is a 32-bit integer
Root(i) == ISqrt(i, 0, 46340)
IsSquare(i) == Root(i) * Root(i) = i
Squarable(i) == i <= 46340

\* Math.sqrt of a finite v >= 0: exact on squares of rationals
MathSqrt(v) ==
  IF ~IsFin(v) THEN Untracked
  ELSE IF v.n < 0 THEN NaN
  ELSE IF IsSquare(v.n) /\ IsSquare(v.d)
       THEN [n |-> Root(v.n), d |-> Root(v.d)]
  ELSE PosInexact

\* Math.log(p) / Math.log(q) for finite p, q > 0: the quotient is k when
\* p = q^k for k in {-1, 0, 1/2, 1, 2}, the IEEE quotient by log(1) = 0 when
\* q = 1, and a finite exponent that is not tracked otherwise.
LogRatio(p, q) ==
  IF q = One
  THEN (IF p = One THEN NaN ELSE IF Lt(One, p) THEN PInf ELSE NInf)
  ELSE IF p = One THEN Zero
  ELSE IF p = q THEN One
  ELSE IF Mul(p, q) = One THEN Num(-1)
  ELSE IF MathSqrt(p) = q THEN Num(2)
  ELSE IF MathSqrt(q) = p THEN Rat(1, 2)
  ELSE OtherExp

\* Math.pow(base, e) for a finite base > 0: exact for the exponents LogRatio
\* tracks (a square is exact when it is a fraction of 32-bit integers)
MathPow(base, e) ==
  IF IsNaN(e) THEN NaN
  ELSE IF e = PInf
       THEN (IF base = One THEN NaN ELSE IF Lt(base, One) THEN Zero ELSE PInf)
  ELSE IF e = NInf
       THEN (IF base = One THEN NaN ELSE IF Lt(base, One) THEN PInf ELSE Zero)
  ELSE IF e = Zero THEN One
  ELSE IF base = One THEN One
  ELSE IF e = One THEN base
  ELSE IF e = Num(-1) THEN Div(One, base)
  ELSE IF e = Rat(1, 2) THEN MathSqrt(base)
  ELSE IF e = Num(2) /\ Squarable(base.n) /\ Squarable(base.d)
       THEN Mul(base, base)
  ELSE PosInexact

\* thrust units: 1 unit = 1e-9 kg
OneKg == 10 ^ 9
Kg(v) == Div(v, Num(OneKg))
\* the literal 1e-9
Eps9 == 1
\* the literal 1e-6
Eps6 == 1000
\* the literal 0.01
MinSpan == 10 ^ 7

---------------------------------------------------------------------------
(* buildSeries *)

\* a raw sample row, and the input of buildSeries: null, or an array of rows
Row(current, thrust_kg, throttle) ==
  [current |-> current, thrust_kg |-> thrust_kg, throttle |-> throttle]
Rows(null, items) == [null |-> null, items |-> items]

Point(x, y, throttle) == [x |-> x, y |-> y, throttle |-> throttle]

\* FiniteRow looking at the current alone
FiniteCurrent(p) == IsFinite(p.current)

\* p => Number.isFinite(p.current) && Number.isFinite(p.thrust_kg)
FiniteRow(p) == IsFinite(p.current) /\ IsFinite(p.thrust_kg)

\* p => ({ x:p.current, y:p.thrust_kg, throttle:p.throttle })
ToPoint(p) == Point(p.current, p.thrust_kg, p.throttle)

\* insert p after every element whose x is <= p.x (the sort is stable)
RECURSIVE InsertByX(_, _)
InsertByX(s, p) ==
  IF s = <<>> THEN <<p>>
  ELSE IF Lt(Sub(p.x, Head(s).x), Zero) THEN <<p>> \o s
  ELSE <<Head(s)>> \o InsertByX(Tail(s), p)

\* .sort((a,b) => a.x - b.x)
RECURSIVE SortByX(_)
SortByX(s) ==
  IF s = <<>> THEN <<>>
  ELSE InsertByX(SortByX(SubSeq(s, 1, Len(s) - 1)), s[Len(s)])

buildSeries(pts) ==
  IF pts.null THEN <<>>
  ELSE LET kept == SelectSeq(pts.items, FiniteRow)
       IN  SortByX([k \in 1..Len(kept) |-> ToPoint(kept[k])])

---------------------------------------------------------------------------
(* interpolateCurrentForLift *)

\* insert p after every element whose y is <= p.y (the sort is stable)
RECURSIVE InsertByY(_, _)
InsertByY(s, p) ==
  IF s = <<>> THEN <<p>>
  ELSE IF Lt(p.y, Head(s).y) THEN <<p>> \o s
  ELSE <<Head(s)>> \o InsertByY(Tail(s), p)

\* [...series].sort((a,b) => a.y - b.y)
RECURSIVE SortByY(_)
SortByY(s) ==
  IF s = <<>> THEN <<>>
  ELSE InsertByY(SortByY(SubSeq(s, 1, Len(s) - 1)), s[Len(s)])

Ok(currentA, throttle, noteLow) ==
  [ok |-> TRUE, reason |-> "none", currentA |-> currentA,
   throttle |-> throttle, noteLow |-> noteLow]
Err(reason) ==
  [ok |-> FALSE, reason |-> reason, currentA |-> Undefined,
   throttle |-> Undefined, noteLow |-> FALSE]

\* PowerLaw evaluated no lower than the lowest thrust a.y
PowerLawHeld(a, b, l) ==
  LET ratioY == Div(b.y, a.y)
      bExp == LogRatio(Div(b.x, a.x), ratioY)
      aCoef == Div(a.x, MathPow(Kg(a.y), bExp))
      at == Kg(MathMax(l, a.y))
      currentPL == Mul(aCoef, MathPow(at, bExp))
  IN  [ok |-> TRUE, reason |-> "none", currentA |-> MathMax(Zero, currentPL),
       throttle |-> Zero, noteLow |-> TRUE]

\* power-law fit through the two lowest points, evaluated at lift l
PowerLaw(a, b, l) ==
  LET ratioY == Div(b.y, a.y)
      bExp == LogRatio(Div(b.x, a.x), ratioY)
      aCoef == Div(a.x, MathPow(Kg(a.y), bExp))
      at == Kg(MathMax(l, Num(Eps9)))
      currentPL == Mul(aCoef, MathPow(at, bExp))
      ta == OrElse(a.throttle, One)
      tb == OrElse(b.throttle, One)
      dExp == LogRatio(Div(tb, ta), ratioY)
      cCoef == Div(ta, MathPow(Kg(a.y), dExp))
      k == Div(Nullish(a.throttle, Zero), MathSqrt(Kg(OrElse(a.y, Num(Eps9)))))
      thr == IF Gt(Nullish(a.throttle, Zero), Zero) /\ Gt(Nullish(b.throttle, Zero), Zero)
             THEN Mul(cCoef, MathPow(at, dExp))
             ELSE Mul(k, MathSqrt(Kg(MathMax(l, Zero))))
  IN  Ok(MathMax(Zero, currentPL), MathMax(Zero, thr), TRUE)

\* linear extrapolation from the lowest point along the first segment
LinearFallback(a, b, l) ==
  LET dy == OrElse(Sub(b.y, a.y), Num(Eps9))
      slopeIx == Div(Sub(b.x, a.x), dy)
      slopeTh == Div(Sub(Nullish(b.throttle, Zero), Nullish(a.throttle, Zero)), dy)
      current == MathMax(Zero, Add(a.x, Mul(Sub(l, a.y), slopeIx)))
      thr == MathMax(Zero, Add(Nullish(a.throttle, Zero), Mul(Sub(l, a.y), slopeTh)))
  IN  Ok(current, thr, TRUE)

\* a single point scaled towards the origin
SinglePoint(min, l) ==
  LET scale == MathMax(Zero, Div(l, MathMax(min.y, Num(Eps9))))
  IN  Ok(Mul(min.x, scale), Mul(Nullish(min.throttle, Zero), scale), TRUE)

BelowRange(pts, l) ==
  IF Len(pts) >= 2
  THEN LET a == pts[1]
           b == pts[2]
       IN  IF Gt(a.y, Zero) /\ Gt(b.y, Zero) /\ Gt(a.x, Zero) /\ Gt(b.x, Zero)
           THEN PowerLaw(a, b, l)
           ELSE LinearFallback(a, b, l)
  ELSE SinglePoint(pts[1], l)

\* Segment with the two ends of the segment exchanged in the weights
SegmentSwapped(a, b, l) ==
  LET t == Div(Sub(l, a.y), OrElse(Sub(b.y, a.y), Num(OneKg)))
      current == Add(b.x, Mul(t, Sub(a.x, b.x)))
      thr == Add(Nullish(b.throttle, Zero),
                 Mul(t, Sub(Nullish(a.throttle, Zero), Nullish(b.throttle, Zero))))
  IN  [ok |-> TRUE, reason |-> "none", currentA |-> current,
       throttle |-> thr, noteLow |-> FALSE]

\* Segment dividing by b.y - a.y without the guard for a zero span
SegmentUnguarded(a, b, l) ==
  LET t == Div(Sub(l, a.y), Sub(b.y, a.y))
      current == Add(a.x, Mul(t, Sub(b.x, a.x)))
      thr == Add(Nullish(a.throttle, Zero),
                 Mul(t, Sub(Nullish(b.throttle, Zero), Nullish(a.throttle, Zero))))
  IN  [ok |-> TRUE, reason |-> "none", currentA |-> current,
       throttle |-> thr, noteLow |-> FALSE]

\* linear interpolation on the segment (a, b)
Segment(a, b, l) ==
  LET t == Div(Sub(l, a.y), OrElse(Sub(b.y, a.y), Num(OneKg)))
      current == Add(a.x, Mul(t, Sub(b.x, a.x)))
      thr == Add(Nullish(a.throttle, Zero),
                 Mul(t, Sub(Nullish(b.throttle, Zero), Nullish(a.throttle, Zero))))
  IN  Ok(current, thr, FALSE)

\* the for loop from index i on (1-based)
RECURSIVE SegmentSearch(_, _, _)
SegmentSearch(pts, l, i) ==
  IF i > Len(pts) - 1 THEN Err("segment-not-found")
  ELSE IF Ge(l, pts[i].y) /\ Le(l, pts[i + 1].y) THEN Segment(pts[i], pts[i + 1], l)
  ELSE SegmentSearch(pts, l, i + 1)

\* interpolateCurrentForLift extending the last segment above the largest thrust
interpolateAboveMax(s, l) ==
  IF Len(s) = 0 THEN Err("no-data")
  ELSE LET pts == SortByY(s)
           min == pts[1]
           max == pts[Len(pts)]
       IN  IF Lt(l, min.y) THEN BelowRange(pts, l)
           ELSE IF Gt(l, max.y) /\ Len(pts) >= 2
                THEN Segment(pts[Len(pts) - 1], max, l)
           ELSE SegmentSearch(pts, l, 1)

\* interpolateCurrentForLift extrapolating at the lowest thrust itself
interpolateLowInclusive(s, l) ==
  IF Len(s) = 0 THEN Err("no-data")
  ELSE LET pts == SortByY(s)
           min == pts[1]
           max == pts[Len(pts)]
       IN  IF Le(l, min.y) THEN BelowRange(pts, l)
           ELSE IF Gt(l, max.y) THEN Err("exceeds-max")
           ELSE SegmentSearch(pts, l, 1)

interpolateCurrentForLift(s, l) ==
  IF Len(s) = 0 THEN Err("no-data")
  ELSE LET pts == SortByY(s)
           min == pts[1]
           max == pts[Len(pts)]
       IN  IF Lt(l, min.y) THEN BelowRange(pts, l)
           ELSE IF Gt(l, max.y) THEN Err("exceeds-max")
           ELSE SegmentSearch(pts, l, 1)

---------------------------------------------------------------------------
(* buildFlightCurve *)

\* the literals 0.7, 0.99, 0.1 and 100 of buildFlightCurve
ExtendBelow == Rat(7, 10)
StayInside == Rat(99, 100)
floorPerMotorA == Rat(1, 10)
Percent == Num(100)
\* the cap on the flight time, in minutes
MaxMinutes == 120
MinutesPerHour == 60

RECURSIVE MinOf(_)
MinOf(s) == IF Len(s) = 1 THEN s[1] ELSE MathMin(s[1], MinOf(Tail(s)))
RECURSIVE MaxOf(_)
MaxOf(s) == IF Len(s) = 1 THEN s[1] ELSE MathMax(s[1], MaxOf(Tail(s)))

\* series.map(p => p.y).filter(Number.isFinite)
FiniteYs(s) == SelectSeq([i \in 1..Len(s) |-> s[i].y], IsFinite)
minPerMotorLift(s) == IF Len(FiniteYs(s)) > 0 THEN MinOf(FiniteYs(s)) ELSE Zero
maxPerMotorLift(s) == IF Len(FiniteYs(s)) > 0 THEN MaxOf(FiniteYs(s)) ELSE Zero
startPer(s) == MathMax(Zero, Mul(minPerMotorLift(s), ExtendBelow))
endPer(s) == MathMax(Add(startPer(s), Num(MinSpan)), Mul(maxPerMotorLift(s), StayInside))
usableAh(cap, pct) == Mul(cap, Div(pct, Percent))

\* Minutes without the cap
MinutesUncapped(interp, mc, cap, pct) ==
  LET perMotorA == MathMax(OrElse(interp.currentA, Zero), Rat(1, 10))
      totalCurrent == Mul(perMotorA, Num(mc))
  IN  IF Gt(totalCurrent, Zero)
      THEN Mul(Div(Mul(cap, Div(pct, Num(100))), totalCurrent), Num(60))
      ELSE Zero

\* the flight time for the per-motor current an Ok result carries
Minutes(interp, mc, cap, pct) ==
  LET perMotorA == MathMax(OrElse(interp.currentA, Zero), floorPerMotorA)
      totalCurrent == Mul(perMotorA, Num(mc))
  IN  IF Gt(totalCurrent, Zero)
      THEN MathMin(Mul(Div(usableAh(cap, pct), totalCurrent), Num(MinutesPerHour)),
                   Num(MaxMinutes))
      ELSE Zero

CurvePoint(w, t, est) == [w |-> w, t |-> t, est |-> est]

\* the lift swept at iteration i of n (i from 0)
PerMotor(s, n, i) ==
  Add(startPer(s), Mul(Sub(endPer(s), startPer(s)), Div(Num(i), Num(n - 1))))

\* SweepStep with the tolerance of est added to the lowest lift
SweepStepLoose(s, mc, cap, pct, n, i) ==
  LET perMotor == PerMotor(s, n, i)
      interp == interpolateCurrentForLift(s, perMotor)
      isEst == Lt(perMotor, Add(minPerMotorLift(s), Num(Eps9)))
  IN  [perMotor |-> perMotor, interp |-> interp,
       point |-> IF interp.ok
                 THEN CurvePoint(Mul(perMotor, Num(mc)), Minutes(interp, mc, cap, pct), isEst)
                 ELSE CurvePoint(Mul(perMotor, Num(mc)), Zero, isEst)]

\* iteration i of the sweep loop: the lift, the interpolation it made and the
\* point it pushes when that interpolation is Ok
SweepStep(s, mc, cap, pct, n, i) ==
  LET perMotor == PerMotor(s, n, i)
      interp == interpolateCurrentForLift(s, perMotor)
      isEst == Lt(perMotor, Sub(minPerMotorLift(s), Num(Eps9)))
  IN  [perMotor |-> perMotor, interp |-> interp,
       point |-> IF interp.ok
                 THEN CurvePoint(Mul(perMotor, Num(mc)), Minutes(interp, mc, cap, pct), isEst)
                 ELSE CurvePoint(Mul(perMotor, Num(mc)), Zero, isEst)]

SweepLoop(s, mc, cap, pct, n) == [k \in 1..n |-> SweepStep(s, mc, cap, pct, n, k - 1)]

StepOk(step) == step.interp.ok
Pushed(steps) ==
  LET oks == SelectSeq(steps, StepOk) IN [k \in 1..Len(oks) |-> oks[k].point]

\* out.some(p => Math.abs(p.w - w) < 1e-6)
Exists(out, w) == \E k \in 1..Len(out) : Lt(MathAbs(Sub(out[k].w, w)), Num(Eps6))

\* the point at the lowest measured lift, pushed unless one is already there
WithBoundary(out, s, mc, cap, pct) ==
  LET m == minPerMotorLift(s)
      b == interpolateCurrentForLift(s, m)
      boundary == CurvePoint(Mul(m, Num(mc)), Minutes(b, mc, cap, pct), FALSE)
  IN  IF Gt(m, Zero) /\ b.ok /\ ~Exists(out, boundary.w)
      THEN Append(out, boundary)
      ELSE out

\* SortByW leaving the points in the order they were pushed in
SortSkipped(s) == s

RECURSIVE InsertByW(_, _)
InsertByW(s, p) ==
  IF s = <<>> THEN <<p>>
  ELSE IF Lt(p.w, Head(s).w) THEN <<p>> \o s
  ELSE <<Head(s)>> \o InsertByW(Tail(s), p)

\* out.sort((a,b) => a.w - b.w)
RECURSIVE SortByW(_)
SortByW(s) ==
  IF s = <<>> THEN <<>>
  ELSE InsertByW(SortByW(SubSeq(s, 1, Len(s) - 1)), s[Len(s)])

buildFlightCurve(s, mc, cap, pct, n) ==
  IF Len(s) = 0 THEN <<>>
  ELSE SortByW(WithBoundary(Pushed(SweepLoop(s, mc, cap, pct, n)), s, mc, cap, pct))

---------------------------------------------------------------------------
(* splitCurve *)

IsEst(d) == d.est
IsKnown(d) == ~d.est

\* Stitch with the comparison of the tolerance inverted
StitchInverted(known, est) ==
  IF Len(known) > 0 /\ Len(est) > 0
     /\ Lt(MathAbs(Sub(est[Len(est)].w, known[1].w)), Num(Eps6))
  THEN Append(est, [known[1] EXCEPT !.est = TRUE])
  ELSE est

\* est with the first known point copied onto its end, unless est already
\* ends within 1e-6 of that point's weight
Stitch(known, est) ==
  IF Len(known) > 0 /\ Len(est) > 0
     /\ Gt(MathAbs(Sub(est[Len(est)].w, known[1].w)), Num(Eps6))
  THEN Append(est, [known[1] EXCEPT !.est = TRUE])
  ELSE est

splitCurve(c) ==
  IF Len(c) = 0 THEN [known |-> <<>>, est |-> <<>>]
  ELSE [known |-> SelectSeq(c, IsKnown),
        est |-> Stitch(SelectSeq(c, IsKnown), SelectSeq(c, IsEst))]

---------------------------------------------------------------------------
(* Inputs of the interpolator *)

MaxLen == 3

\* (x = current, y = thrust, throttle); 10^9 thrust units are 1 kg.  Pairs of
\* these points give the power-law exponents 1/2, 1 and 2 and untracked ones.
SeriesPoints ==
  { Point(Num(5), Num(10 ^ 9), Undefined),
    Point(Num(10), Num(2 * 10 ^ 9), Undefined),
    Point(Num(2), Num(5 * 10 ^ 8), Num(20)),
    Point(Num(4), Num(10 ^ 9), Num(30)),
    Point(Num(3), Num(25 * 10 ^ 7), Num(10)),
    Point(Rat(1, 2), Num(25 * 10 ^ 7), Num(5)),
    Point(Num(2), Num(25 * 10 ^ 7), Num(15)),
    Point(Zero, Zero, Zero),
    Point(Num(-1), Num(-(10 ^ 8)), Num(-5)) }

Lifts ==
  { Num(-2 * 10 ^ 8), Zero, Num(625 * 10 ^ 5), Num(25 * 10 ^ 7), Num(5 * 10 ^ 8),
    Num(10 ^ 9), Num(15 * 10 ^ 8), Num(2 * 10 ^ 9), Num(21 * 10 ^ 8) }

\* thrusts of 0.5e-9, 1e-9 and 2e-9 kg, at and below the 1e-9 the power law
\* is evaluated at, with the targets around them
NanoPoints ==
  { Point(Num(1), Rat(1, 2), Num(1)),
    Point(Num(2), Num(1), Num(2)),
    Point(Num(4), Num(2), Num(4)) }

NanoLifts == { Rat(1, 4), Rat(3, 4), Num(1), Rat(3, 2) }

SeqsUpTo(S, k) == UNION { [1..m -> S] : m \in 0..k }

NoResult == Err("not-called")
NoSplit == [known |-> <<>>, est |-> <<>>]
NoRows == Rows(TRUE, <<>>)

\* a series and a target of the one scale or of the other: mixing the two
\* gives fractions that leave the 32-bit integers
Init ==
  /\ rows = NoRows
  /\ \/ series \in SeqsUpTo(SeriesPoints, MaxLen) /\ liftKgPerMotor \in Lifts
     \/ series \in SeqsUpTo(NanoPoints, MaxLen) /\ liftKgPerMotor \in NanoLifts
  /\ res = NoResult
  /\ motorCount = 1
  /\ capacityAh = Zero
  /\ usablePct = Zero
  /\ points = 2
  /\ curve = <<>>
  /\ swept = <<>>
  /\ split = NoSplit
  /\ pc = "interpolate"

\* one call interpolateCurrentForLift(series, lift)
Interpolate ==
  /\ pc = "interpolate"
  /\ res' = interpolateCurrentForLift(series, liftKgPerMotor)
  /\ pc' = "done"
  /\ UNCHANGED <<rows, series, liftKgPerMotor, motorCount, capacityAh, usablePct,
                 points, curve, swept, split>>

Next == Interpolate

Spec == Init /\ [][Next]_vars

---------------------------------------------------------------------------
(* Inputs of the series builder: rows -> buildSeries *)

MaxRows == 3

\* rows with finite and non-finite currents and thrusts, two of them with the
\* same current, one with a negative thrust, with and without a throttle
RowValues ==
  { Row(Num(2), Num(5 * 10 ^ 8), Num(20)),
    Row(Num(1), Num(10 ^ 9), Undefined),
    Row(Num(2), Num(-(10 ^ 8)), NaN),
    Row(NaN, Num(10 ^ 9), Num(30)),
    Row(Num(3), NaN, Num(30)),
    Row(PInf, Num(5 * 10 ^ 8), Undefined),
    Row(Num(4), NInf, Num(10)),
    Row(Undefined, Undefined, Undefined) }

RowInputs == { Rows(TRUE, <<>>) } \cup { Rows(FALSE, s) : s \in SeqsUpTo(RowValues, MaxRows) }

InitSeries ==
  /\ rows \in RowInputs
  /\ series = <<>>
  /\ liftKgPerMotor = Zero
  /\ res = NoResult
  /\ motorCount = 1
  /\ capacityAh = Zero
  /\ usablePct = Zero
  /\ points = 2
  /\ curve = <<>>
  /\ swept = <<>>
  /\ split = NoSplit
  /\ pc = "series"

\* one call buildSeries(rows): filter and map return new arrays and sort
\* orders the new array in place, so the array passed in keeps its content
BuildSeries ==
  /\ pc = "series"
  /\ series' = buildSeries(rows)
  /\ rows' = rows
  /\ pc' = "built"
  /\ UNCHANGED <<liftKgPerMotor, res, motorCount, capacityAh, usablePct, points,
                 curve, swept, split>>

NextSeries == BuildSeries

SpecSeries == InitSeries /\ [][NextSeries]_vars

---------------------------------------------------------------------------
(* Inputs of the curve builder: series -> buildFlightCurve -> splitCurve *)

MaxCurveLen == 2
MaxUnits == 2
MaxSamples == 3

\* thrusts of 0, 0.02, 0.04 and 0.08 kg; the currents make every power-law
\* exponent one of -1, 0, 1, so that each current of the curve is exact
CurvePoints ==
  { Point(Num(1), Num(2 * 10 ^ 7), Undefined),
    Point(Num(2), Num(4 * 10 ^ 7), Undefined),
    Point(Num(1), Num(8 * 10 ^ 7), Undefined),
    Point(Zero, Zero, Undefined) }

\* thrusts of 1e-9 and 2e-9 kg, where the 1e-9 tolerances are as large as the
\* data (at zero current: a power law at this scale is not representable)
TinyPoints ==
  { Point(Zero, Num(1), Undefined),
    Point(Zero, Num(2), Undefined) }

\* a series of the one scale or of the other: a series mixing the two has
\* currents whose fractions leave the 32-bit integers
CurveSeries ==
  SeqsUpTo(CurvePoints, MaxCurveLen) \cup SeqsUpTo(TinyPoints, MaxCurveLen)

Capacities == { Zero, Num(1), Num(5) }
UsablePcts == { Zero, Num(80), Num(100) }

InitCurve ==
  /\ rows = NoRows
  /\ series \in CurveSeries
  /\ motorCount \in 1..MaxUnits
  /\ capacityAh \in Capacities
  /\ usablePct \in UsablePcts
  /\ points \in 2..MaxSamples
  /\ liftKgPerMotor = Zero
  /\ res = NoResult
  /\ curve = <<>>
  /\ swept = <<>>
  /\ split = NoSplit
  /\ pc = "build"

\* one call buildFlightCurve(series, motorCount, capacityAh, usablePct, points);
\* swept records what each iteration of its sweep loop did
BuildFlightCurve ==
  /\ pc = "build"
  /\ curve' = buildFlightCurve(series, motorCount, capacityAh, usablePct, points)
  /\ swept' = IF Len(series) = 0 THEN <<>>
              ELSE SweepLoop(series, motorCount, capacityAh, usablePct, points)
  /\ pc' = "split"
  /\ UNCHANGED <<rows, series, liftKgPerMotor, res, motorCount, capacityAh,
                 usablePct, points, split>>

\* one call splitCurve(curve)
SplitCurve ==
  /\ pc = "split"
  /\ split' = splitCurve(curve)
  /\ pc' = "done"
  /\ UNCHANGED <<rows, series, liftKgPerMotor, res, motorCount, capacityAh,
                 usablePct, points, curve, swept>>

NextCurve == BuildFlightCurve \/ SplitCurve

SpecCurve == InitCurve /\ [][NextCurve]_vars

---------------------------------------------------------------------------
(* Inputs of splitCurve alone: any curve sorted ascending by weight *)

MaxCurve == 3

SplitWeights == { Num(10 ^ 7), Num(10 ^ 7 + 500), Num(2 * 10 ^ 7) }
SplitMinutes == { Num(10), Num(20) }
SplitPoints ==
  { CurvePoint(w, t, e) : w \in SplitWeights, t \in SplitMinutes, e \in BOOLEAN }

SortedByW(c) == \A i \in 1..(Len(c) - 1) : Le(c[i].w, c[i + 1].w)

InitSplit ==
  /\ curve \in { c \in SeqsUpTo(SplitPoints, MaxCurve) : SortedByW(c) }
  /\ rows = NoRows
  /\ series = <<>>
  /\ motorCount = 1
  /\ capacityAh = Zero
  /\ usablePct = Zero
  /\ points = 2
  /\ liftKgPerMotor = Zero
  /\ res = NoResult
  /\ swept = <<>>
  /\ split = NoSplit
  /\ pc = "split"

NextSplit == SplitCurve

SpecSplit == InitSplit /\ [][NextSplit]_vars

---------------------------------------------------------------------------
\* the thrust-sorted series of the state
Sorted == SortByY(series)
MinY == Sorted[1].y
MaxY == Sorted[Len(Sorted)].y
Called == pc = "done"
InRange(l) == Len(series) >= 1 /\ Le(MinY, l) /\ Le(l, MaxY)
\* an exact rational, the only values the order of which the model decides
Exact(v) == IsFin(v)

---------------------------------------------------------------------------
(* Claims about buildSeries, checked under SpecSeries *)

SeriesBuilt == pc = "built"
\* the rows passed in (none for null)
Given == IF rows.null THEN <<>> ELSE rows.items
BothFinite(r) == r.current.d > 0 /\ r.thrust_kg.d > 0
Occurrences(s, e) == Cardinality({ k \in 1..Len(s) : s[k] = e })
AsPoint(r) == [x |-> r.current, y |-> r.thrust_kg, throttle |-> r.throttle]

\* what the claim says of the series returned for the rows given
C11_Returned ==
  SeriesBuilt =>
    /\ \A k \in 1..Len(series) : series[k].x.d > 0 /\ series[k].y.d > 0
    /\ \A k \in 1..(Len(series) - 1) : Le(series[k].x, series[k + 1].x)
    /\ Len(series) = Cardinality({ k \in 1..Len(Given) : BothFinite(Given[k]) })
    /\ \A r \in RowValues :
         Occurrences(series, AsPoint(r)) =
           IF BothFinite(r) THEN Occurrences(Given, r) ELSE 0

\* C11: for any input rows (null and empty included) in any order, buildSeries
\* returns exactly the rows whose current and thrust are both finite, each
\* kept once as (x = current, y = thrust, throttle), none with a non-finite x
\* or y, ordered so that x is non-decreasing; the input is left unmodified.
C11_FilteredSorted == [](C11_Returned) /\ [][rows' = rows]_vars

\* three rows given out of current order, one of them dropped
C11_Witness ==
  /\ SeriesBuilt
  /\ ~rows.null /\ Len(rows.items) = 3
  /\ ~BothFinite(rows.items[2])
  /\ series = << AsPoint(rows.items[3]), AsPoint(rows.items[1]) >>
  /\ Lt(series[1].x, series[2].x)

---------------------------------------------------------------------------
(* Claims about interpolateCurrentForLift, checked under Spec *)

\* C1: for every non-empty series and every target with min.y <= target <= max.y
\* the call returns Ok with noteLow = FALSE (never 'segment-not-found').
C1_InRangeIsOk ==
  (Called /\ InRange(liftKgPerMotor)) => (res.ok /\ ~res.noteLow)

\* C4: for every non-empty series and every target strictly above the largest
\* thrust the call returns Err 'exceeds-max', never an Ok result.
C4_ExceedsMax ==
  (Called /\ Len(series) >= 1 /\ Gt(liftKgPerMotor, MaxY))
    => (~res.ok /\ res.reason = "exceeds-max")

C4_Witness ==
  /\ Called
  /\ Len(series) >= 2
  /\ Gt(liftKgPerMotor, MaxY)
  /\ res = Err("exceeds-max")

\* the first consecutive pair of the thrust-sorted series that brackets l
Brackets(i, l) == Le(Sorted[i].y, l) /\ Le(l, Sorted[i + 1].y)
FirstBracket(l) ==
  CHOOSE i \in 1..(Len(Sorted) - 1) :
    Brackets(i, l) /\ \A j \in 1..(i - 1) : ~Brackets(j, l)
Thr0(p) == IF p.throttle = Undefined THEN Zero ELSE p.throttle
Lerp(u, v, l, ya, yb) ==
  LET span == IF yb = ya THEN Num(OneKg) ELSE Sub(yb, ya)
  IN  Add(u, Mul(Div(Sub(l, ya), span), Sub(v, u)))

\* C5: with at least two points and a target inside [min.y, max.y] the call
\* returns currentA = a.x + t*(b.x - a.x) and throttle = a.throttle +
\* t*(b.throttle - a.throttle) (missing throttle read as 0) on the first
\* bracketing pair (a, b), t = (target - a.y)/(b.y - a.y) with divisor 1 when
\* b.y = a.y; (x=5,y=1),(x=10,y=2) at 1.5 gives 7.5.
C5_Interpolation ==
  (Called /\ Len(series) >= 2 /\ InRange(liftKgPerMotor))
    => LET a == Sorted[FirstBracket(liftKgPerMotor)]
           b == Sorted[FirstBracket(liftKgPerMotor) + 1]
       IN  /\ res.ok
           /\ res.currentA = Lerp(a.x, b.x, liftKgPerMotor, a.y, b.y)
           /\ res.throttle = Lerp(Thr0(a), Thr0(b), liftKgPerMotor, a.y, b.y)

C5_Witness ==
  /\ Called
  /\ series = << Point(Num(5), Num(10 ^ 9), Undefined),
                 Point(Num(10), Num(2 * 10 ^ 9), Undefined) >>
  /\ liftKgPerMotor = Num(15 * 10 ^ 8)
  /\ res = Ok(Rat(15, 2), Zero, FALSE)

\* C6: for every non-empty series a target strictly below the lowest thrust
\* yields Ok with noteLow = TRUE, and an Ok result has noteLow = TRUE only
\* if the target is below the lowest thrust.
C6_BelowRangeFlag ==
  (Called /\ Len(series) >= 1)
    => /\ Lt(liftKgPerMotor, MinY) => (res.ok /\ res.noteLow)
       /\ (res.ok /\ res.noteLow) => Lt(liftKgPerMotor, MinY)

\* the power-law strategy has run
C6_Witness ==
  /\ Called
  /\ Len(series) >= 2
  /\ Lt(liftKgPerMotor, MinY)
  /\ Gt(Sorted[1].x, Zero) /\ Gt(Sorted[2].x, Zero) /\ Gt(MinY, Zero)
  /\ res.ok /\ res.noteLow

\* the two lowest-thrust points are 0 < y1 < y2 with 0 < x1 < x2 and the
\* target is 0 < target < y1
PowerCase ==
  /\ Called /\ Len(series) >= 2
  /\ Lt(Zero, Sorted[1].y) /\ Lt(Sorted[1].y, Sorted[2].y)
  /\ Lt(Zero, Sorted[1].x) /\ Lt(Sorted[1].x, Sorted[2].x)
  /\ Lt(Zero, liftKgPerMotor) /\ Lt(liftKgPerMotor, Sorted[1].y)

\* C12: in the power case the call yields Ok with noteLow = TRUE and a
\* currentA strictly less than x1, the current of the lowest-thrust point
\* (decided wherever the model tracks the value of currentA).
C12_BelowLowestCurrent ==
  PowerCase =>
    /\ res.ok /\ res.noteLow
    /\ Exact(res.currentA) => Lt(res.currentA, Sorted[1].x)

\* C12 (amended): in the power case the call yields Ok with noteLow = TRUE;
\* currentA is strictly less than x1 when y1 > 1e-9, and is at least x1 when
\* y1 <= 1e-9, where the fit is evaluated at 1e-9 and not at the target.
C12_BelowLowestCurrentAboveEps ==
  PowerCase =>
    /\ res.ok /\ res.noteLow
    /\ (Exact(res.currentA) /\ Gt(Sorted[1].y, Num(Eps9)))
         => Lt(res.currentA, Sorted[1].x)
    /\ (Exact(res.currentA) /\ Le(Sorted[1].y, Num(Eps9)))
         => Ge(res.currentA, Sorted[1].x)

\* the example (x=2, y=0.5, throttle=20), (x=4, y=1, throttle=30) at 0.25
C12_Witness ==
  /\ PowerCase
  /\ series = << Point(Num(2), Num(5 * 10 ^ 8), Num(20)),
                 Point(Num(4), Num(10 ^ 9), Num(30)) >>
  /\ liftKgPerMotor = Num(25 * 10 ^ 7)
  /\ res.ok /\ res.noteLow
  /\ res.currentA = Num(1)

\* the orders in which the points of the series can be supplied
Bijections(n) == { f \in [1..n -> 1..n] : \A i, j \in 1..n : f[i] = f[j] => i = j }
Permutations(s) == { [i \in 1..Len(s) |-> s[f[i]]] : f \in Bijections(Len(s)) }
\* two numbers the model tracks are the same number
SameNumber(v, w) == (IsInexact(v) \/ IsInexact(w)) \/ v = w
SameResult(r1, r2) ==
  /\ r1.ok = r2.ok /\ r1.reason = r2.reason /\ r1.noteLow = r2.noteLow
  /\ SameNumber(r1.currentA, r2.currentA)
  /\ SameNumber(r1.throttle, r2.throttle)

\* C13: for any series, any permutation of it and any target the call returns
\* the same tag, currentA, throttle and noteLow, also when several points have
\* the same thrust.
C13_OrderIndependent ==
  Called => \A q \in Permutations(series) :
              SameResult(interpolateCurrentForLift(q, liftKgPerMotor), res)

\* the thrusts of the series are pairwise distinct
DistinctThrusts == \A i, j \in 1..Len(series) : series[i].y = series[j].y => i = j

\* the call took the power-law path: the target is below min.y and the two
\* lowest-thrust points both have x > 0 and y > 0
PowerPath ==
  /\ Called /\ Len(series) >= 2
  /\ Lt(liftKgPerMotor, MinY)
  /\ Gt(Sorted[1].y, Zero) /\ Gt(Sorted[2].y, Zero)
  /\ Gt(Sorted[1].x, Zero) /\ Gt(Sorted[2].x, Zero)

\* C15: on the power-law path the two anchor points have distinct thrusts, so
\* the divisor ln(y2/y1) is non-zero and the returned currentA and throttle
\* are finite numbers.
C15_DistinctAnchors ==
  PowerPath =>
    /\ Sorted[1].y # Sorted[2].y
    /\ res.ok /\ IsFinite(res.currentA) /\ IsFinite(res.throttle)

\* C7: every Ok result has currentA >= 0 and throttle >= 0.
C7_NonNegative ==
  (Called /\ res.ok) => (Ge(res.currentA, Zero) /\ Ge(res.throttle, Zero))

CurrentsAscend == \A i \in 1..(Len(Sorted) - 1) : Le(Sorted[i].x, Sorted[i + 1].x)

---------------------------------------------------------------------------
(* Claims about buildFlightCurve, checked under SpecCurve *)

Built == pc \in {"split", "done"} /\ Len(series) >= 1
Within(a, b, tol) == Lt(MathAbs(Sub(a, b)), tol)
\* the points of the curve whose per-unit lift w / unitCount is within 1e-6 of minY
AtMinY == { k \in 1..Len(curve) : Within(Div(curve[k].w, Num(motorCount)), MinY, Num(Eps6)) }

\* C2: for every non-empty series with minY > 0 the curve holds exactly one
\* point whose per-unit lift equals minY within 1e-6.
C2_OneBoundaryPoint ==
  (Built /\ Gt(MinY, Zero)) => Cardinality(AtMinY) = 1

\* C8: every point of the curve has 0 <= minutes <= 120.
C8_MinutesCapped ==
  Built => \A k \in 1..Len(curve) :
             Le(Zero, curve[k].t) /\ Le(curve[k].t, Num(MaxMinutes))

\* the boundary point was appended, one point sits at the cap and one below it
C8_Witness ==
  /\ Built
  /\ Len(curve) = Len(Pushed(swept)) + 1
  /\ \E k \in 1..Len(curve) : curve[k].t = Num(MaxMinutes)
  /\ \E k \in 1..Len(curve) : Lt(Zero, curve[k].t) /\ Lt(curve[k].t, Num(MaxMinutes))

\* C10: every point the sweep loop emits has est equal to the noteLow that
\* interpolateCurrentForLift returned for the swept lift.
C10_EstIsNoteLow ==
  Built => \A k \in 1..Len(swept) :
             swept[k].interp.ok => (swept[k].point.est = swept[k].interp.noteLow)

\* C10 (amended): a point the sweep loop emits has est = TRUE only if noteLow
\* is TRUE, and has est = FALSE with noteLow = TRUE only for a swept lift in
\* [minY - 1e-9, minY); est is TRUE exactly below minY - 1e-9.
C10_EstWithinTolerance ==
  Built => \A k \in 1..Len(swept) :
             LET st == swept[k]
                 edge == Sub(MinY, Num(Eps9))
             IN  st.interp.ok =>
                   /\ st.point.est => st.interp.noteLow
                   /\ st.point.est <=> Lt(st.perMotor, edge)
                   /\ (st.interp.noteLow /\ ~st.point.est)
                        => (Le(edge, st.perMotor) /\ Lt(st.perMotor, MinY))
                   /\ \E j \in 1..Len(curve) : curve[j] = st.point

\* the sweep emitted an estimated point and a measured one
C10_Witness ==
  /\ Built
  /\ \E k \in 1..Len(swept) :
       swept[k].interp.ok /\ swept[k].point.est /\ swept[k].interp.noteLow
  /\ \E k \in 1..Len(swept) :
       swept[k].interp.ok /\ ~swept[k].point.est /\ ~swept[k].interp.noteLow

\* the measured (not estimated) points of the curve, by index
Measured == { k \in 1..Len(curve) : ~curve[k].est }

\* C14: the curve is ordered by non-decreasing weight w and its estimated
\* points form a prefix of it, so that the first measured point, the boundary
\* splitCurve takes, has the lowest weight of the measured points.
C14_SortedEstPrefix ==
  (pc \in {"split", "done"}) =>
    /\ \A k \in 1..(Len(curve) - 1) : Le(curve[k].w, curve[k + 1].w)
    /\ \A i, j \in 1..Len(curve) : (i < j /\ curve[j].est) => curve[i].est
    /\ (pc = "done" /\ Measured # {}) =>
         /\ split.known[1] = curve[Cardinality(1..Len(curve) \ Measured) + 1]
         /\ \A k \in Measured : Le(split.known[1].w, curve[k].w)

\* the curve was split; it has estimated points and several measured ones, and
\* the boundary point, pushed last, was sorted in between them
C14_Witness ==
  /\ pc = "done" /\ Len(series) >= 2
  /\ Len(curve) = Len(Pushed(swept)) + 1
  /\ Cardinality(Measured) >= 2 /\ Cardinality(Measured) < Len(curve)
  /\ \E k \in Measured :
       /\ k < Len(curve)
       /\ curve[k].w = Mul(MinY, Num(motorCount))
       /\ split.known[1] = curve[k]

---------------------------------------------------------------------------
(* Claims about splitCurve, checked under SpecSplit *)

WasSplit == pc = "done" /\ SortedByW(curve) /\ Len(split.known) > 0 /\ Len(split.est) > 0
LastEst == split.est[Len(split.est)]
FirstKnown == split.known[1]
CurveEst == SelectSeq(curve, IsEst)

\* C9: when both parts are non-empty, the last element of est and the first
\* element of known have the same weight and the same minutes.
C9_SameBoundary ==
  WasSplit => (LastEst.w = FirstKnown.w /\ LastEst.t = FirstKnown.t)

\* C9 (amended): when both parts are non-empty, the last element of est and
\* the first element of known have weights at most 1e-6 apart; they have the
\* same weight and the same minutes whenever the curve's last estimated point
\* was more than 1e-6 away from the first measured point.
C9_StitchedBoundary ==
  WasSplit =>
    /\ Le(MathAbs(Sub(LastEst.w, FirstKnown.w)), Num(Eps6))
    /\ Gt(MathAbs(Sub(CurveEst[Len(CurveEst)].w, FirstKnown.w)), Num(Eps6))
         => (LastEst.w = FirstKnown.w /\ LastEst.t = FirstKnown.t /\ LastEst.est)

\* the boundary was copied onto est
C9_Witness ==
  /\ WasSplit
  /\ Len(split.est) = Len(CurveEst) + 1
  /\ LastEst = [FirstKnown EXCEPT !.est = TRUE]
  /\ Len(split.known) >= 2

====
